---- MODULE Spec2Model ----
(***************************************************************************)
(* Model of stressedout-go (src/main.go): the four-table store behind      *)
(* app.db, the bulk seeding run (handleSeedDB / seedDatabase), and the     *)
(* randomized read and write workload handlers (handleDBRead,              *)
(* handleDBWrite), each request running on its own goroutine and           *)
(* interleaving with the others at every store call.                       *)
(*                                                                         *)
(* Representation.                                                         *)
(*  - A uuid is a natural number; uuid.Nil (the Go zero value) is 0.  The   *)
(*    backend's uuid_generate_v4() default yields an id no row of the      *)
(*    table carries; rows are never deleted, so Cardinality(table) + i is  *)
(*    fresh.                                                               *)
(*  - A price is a fixed-point number of cents (NUMERIC(10,2)).  The Go    *)
(*    value is a float64 holding a two-decimal number; the product         *)
(*    float64(quantity) * price differs from the exact product by far less *)
(*    than half a cent for quantity <= 10 and price <= 1000, so the value  *)
(*    the backend stores in total_price NUMERIC(10,2) is the exact product *)
(*    in cents.                                                            *)
(*  - Free-text columns (name, address, description, content) and the date *)
(*    are generated non-empty, are read by no branch of the code, and are  *)
(*    left out; a user or product name is identified with the row's id.    *)
(*  - go-pg sends a Go zero value of a column without the use_zero tag as   *)
(*    DEFAULT, which for a column with no default is NULL.                 *)
(*  - Every store call may fail with a backend error (connection,         *)
(*    timeout); a failed call leaves the store unchanged.                  *)
(*  - A caller may disconnect while its request is in flight: the          *)
(*    request's context is cancelled, and a store call made with that      *)
(*    context then returns the context's error without reaching the store. *)
(*  - Spec interleaves the seeding run with every workload request and     *)
(*    with the disconnection of their callers.  Its restrictions:          *)
(*    SpecSeed, the seeding run alone; SpecWrite, with the write requests; *)
(*    SpecRead, with one read request; SpecReaders, with the concurrent    *)
(*    read requests; SpecWorkload, with the write requests, one read       *)
(*    request and their cancellation.                                      *)
(***************************************************************************)
EXTENDS Naturals, Sequences, FiniteSets

(* Bounds of the model: the number of rows of each kind a seeding run      *)
(* generates (2000, 100, 30000 and 10000 in the program).                  *)
NumUsers == 1
NumProducts == 1
NumOrders == 1
NumReviews == 1

(* Program constants. *)
PriceMin == 100
PriceMax == 100000
SeedQuantityMax == 10
WriteQuantityMax == 5
RatingMax == 100
StatusCreated == 201
StatusInternalServerError == 500
StatusOK == 200

\* The concurrent workload invocations: one goroutine each.
Writers == {"w1"}
Readers == {"r1", "r2"}

VARIABLES users, products, orders, reviews, seed, wr, rd

vars == <<users, products, orders, reviews, seed, wr, rd>>

(* ---------------------------------------------------------------------- *)
(* Entities and their Go zero values                                       *)
(* ---------------------------------------------------------------------- *)
NilUUID == 0

ZeroUser == [id |-> NilUUID]

ZeroProduct == [id |-> NilUUID, price |-> 0]

ZeroOrder == [id |-> NilUUID, user_id |-> NilUUID, product_id |-> NilUUID,
              quantity |-> 0, total_price |-> 0]

ZeroReview == [id |-> NilUUID, product_id |-> NilUUID, user_id |-> NilUUID,
               rating |-> 0]

\* templateData of write.html and of read.html
ZeroWriteView == [ProductName |-> NilUUID, UserName |-> NilUUID,
                  OrderQuantity |-> 0, OrderTotalPrice |-> 0,
                  ReviewRating |-> 0]

ZeroReadView == [ProductName |-> NilUUID, OrderCount |-> 0,
                 UniqueUserCount |-> 0, Reviews |-> {}]

(* ---------------------------------------------------------------------- *)
(* Random content (gofakeit), drawn at the ends of each range              *)
(* ---------------------------------------------------------------------- *)
Number(min, max) == {min, max}

\* gofakeit.Number(1, 100) as a rating.  No branch of the code reads a
\* rating and the schema's CHECK admits the whole range: one draw stands
\* for it.
Rating(min, max) == {max}

Price(min, max) == {min, max}

(* ---------------------------------------------------------------------- *)
(* The schema (setupDatabase) as the backend enforces it on insert          *)
(* ---------------------------------------------------------------------- *)
IDs(table) == {x.id : x \in table}

UsersTableOK(u) == TRUE

ProductsTableOK(p) == p.price # 0

\* Mutant: the orders table without NOT NULL REFERENCES users(id).
OrdersTableNoUserKey(o) ==
    /\ o.product_id # NilUUID /\ o.product_id \in IDs(products)
    /\ o.quantity # 0
    /\ o.total_price # 0

OrdersTableOK(o) ==
    /\ o.user_id # NilUUID /\ o.user_id \in IDs(users)
    /\ o.product_id # NilUUID /\ o.product_id \in IDs(products)
    /\ o.quantity # 0
    /\ o.total_price # 0

ReviewsTableOK(r) ==
    /\ r.product_id # NilUUID /\ r.product_id \in IDs(products)
    /\ r.user_id # NilUUID /\ r.user_id \in IDs(users)
    /\ r.rating # 0 /\ r.rating >= 0 /\ r.rating <= 100

(* ---------------------------------------------------------------------- *)
(* The store client (go-pg)                                                *)
(* ---------------------------------------------------------------------- *)
(* The rows of a slice with the ids the backend's RETURNING clause gives   *)
(* them: a zero id is replaced by a fresh one.                             *)
Returning(rows, table) ==
    [i \in 1..Len(rows) |->
        IF rows[i].id = NilUUID
        THEN [rows[i] EXCEPT !.id = Cardinality(table) + i]
        ELSE rows[i]]

Range(s) == {s[i] : i \in 1..Len(s)}

\* Every row of a slice meets the constraints of the users, products,
\* orders or reviews table.
UsersOK(rows) == \A x \in Range(rows) : UsersTableOK(x)

ProductsOK(rows) == \A x \in Range(rows) : ProductsTableOK(x)

OrdersOK(rows) == \A x \in Range(rows) : OrdersTableOK(x)

ReviewsOK(rows) == \A x \in Range(rows) : ReviewsTableOK(x)


\* Mutant: the inserted rows replace the rows of the table.
InsertReplacing(rows, table, ok) ==
    {[err |-> "Backend", rows |-> rows, table |-> table]}
    \cup
    (IF ok
     THEN {[err |-> "nil", rows |-> Returning(rows, table),
            table |-> Range(Returning(rows, table))]}
     ELSE {[err |-> "Constraint", rows |-> rows, table |-> table]})

(* Outcomes of db.Model(rows).Insert(): one INSERT statement, all rows or  *)
(* none.  ok: every row meets the table's constraints.                     *)
Insert(rows, table, ok) ==
    {[err |-> "Backend", rows |-> rows, table |-> table]}
    \cup
    (IF ok
     THEN {[err |-> "nil", rows |-> Returning(rows, table),
            table |-> table \cup Range(Returning(rows, table))]}
     ELSE {[err |-> "Constraint", rows |-> rows, table |-> table]})

\* Outcomes of QueryOne(&dst, SELECT all FROM table ORDER BY RANDOM() LIMIT 1)
\* into a zero-valued dst.
SelectRandom(table, zero) ==
    {[err |-> "Backend", row |-> zero]}
    \cup
    (IF table = {}
     THEN {[err |-> "NoRows", row |-> zero]}
     ELSE {[err |-> "nil", row |-> x] : x \in table})

\* SELECT COUNT of the orders WHERE product_id = ?
CountOrders(product_id) ==
    Cardinality({o \in orders : o.product_id = product_id})

\* Mutant: the users counted without regard to the product's orders.
CountAllUsers(product_id) == Cardinality(users)

\* SELECT COUNT(DISTINCT user_id) FROM orders WHERE product_id = ?
CountDistinctUsers(product_id) ==
    Cardinality({o.user_id : o \in {x \in orders : x.product_id = product_id}})

(* SELECT u.name, r.rating, r.content FROM reviews r JOIN users u           *)
(* ON r.user_id = u.id WHERE r.product_id = ?                              *)
SelectReviews(product_id) ==
    {r \in reviews : r.product_id = product_id /\ r.user_id \in IDs(users)}

\* db.QueryOne of an aggregate: the one row it returns, or a backend error
\* that leaves the destination zero.
QueryOne(value, zero) ==
    {[err |-> "Backend", value |-> zero]}
    \cup {[err |-> "nil", value |-> value]}

\* Mutant: the reviews fetched with QueryOne, which answers no row with
\* pg.ErrNoRows.
QueryAsQueryOne(rows) ==
    {[err |-> "Backend", value |-> {}]}
    \cup (IF rows = {} THEN {[err |-> "NoRows", value |-> {}]}
          ELSE {[err |-> "nil", value |-> rows]})

\* db.Query into a slice: the rows, none of them included, or a backend
\* error that leaves the slice nil.
Query(rows) ==
    {[err |-> "Backend", value |-> {}]}
    \cup {[err |-> "nil", value |-> rows]}

\* A store call made with the request's context (QueryOneContext,
\* QueryContext, ModelContext): once the context is cancelled the client
\* returns the context's error before anything is sent to the backend.
WithContext(cancelled, outcomes, canceled) ==
    IF cancelled THEN {canceled} ELSE outcomes

\* The calls of a request that ran against the store after its context was
\* cancelled.
Late(cancelled, err, name, late) ==
    IF cancelled /\ err # "Canceled" THEN late \cup {name} ELSE late

(* ---------------------------------------------------------------------- *)
(* Init                                                                    *)
(* ---------------------------------------------------------------------- *)
Init ==
    /\ users = {}
    /\ products = {}
    /\ orders = {}
    /\ reviews = {}
    /\ seed = [pc |-> "users", users |-> <<>>, products |-> <<>>,
               orders |-> <<>>, reviews |-> <<>>, errs |-> <<>>,
               calls |-> <<>>, ret |-> "nil", status |-> 0]
    /\ wr = [w \in Writers |->
               [pc |-> "product", product |-> ZeroProduct, user |-> ZeroUser,
                order |-> ZeroOrder, review |-> ZeroReview, log |-> <<>>,
                status |-> 0, view |-> ZeroWriteView,
                cancelled |-> FALSE, late |-> {}]]
    /\ rd = [r \in Readers |->
               [pc |-> "product", product |-> ZeroProduct, orderCount |-> 0,
                uniqueUserCount |-> 0, reviews |-> {}, log |-> <<>>,
                status |-> 0, view |-> ZeroReadView,
                cancelled |-> FALSE, late |-> {}]]

(* ---------------------------------------------------------------------- *)
(* Seeding: handleSeedDB calling seedDatabase                              *)
(* ---------------------------------------------------------------------- *)
\* Mutant: the total price without the quantity.
TotalPriceOfOne(quantity, price) == price

\* TotalPrice: float64(quantity) * product.Price, in cents.
TotalPrice(quantity, price) == quantity * price

\* The lengths of the slices seedDatabase makes, scaled to the bounds.
LenUsers == NumUsers

LenProducts == NumProducts

\* Mutant: one order more than requested.
LenOrdersOneMore == NumOrders + 1

LenOrders == NumOrders

LenReviews == NumReviews

\* Mutant: an error of the Users bulk insert ends the run.
SeedAfterUsersFatal(err, next) ==
    IF err # "nil" /\ next = "products" THEN "done" ELSE next

\* Mutant: an error of a bulk insert ends the run.
SeedAfterAbort(err, next) == IF err # "nil" THEN "done" ELSE next

\* After a bulk insert: the error is logged and seeding goes on.
SeedAfter(err, next) == next

\* seedDatabase's result: nil on every path.
SeedReturn(errs) == "nil"

\* handleSeedDB's status line: http.Error writes 500 first and the later
\* WriteHeader(201) of the same response is dropped by net/http.
SeedStatus(err) ==
    IF err # "nil" THEN StatusInternalServerError ELSE StatusCreated

seedDatabase_Users ==
    /\ seed.pc = "users"
    /\ LET rows == [i \in 1..LenUsers |-> ZeroUser]
       IN \E res \in Insert(rows, users, UsersOK(rows)) :
            /\ users' = res.table
            /\ seed' = [seed EXCEPT !.users = res.rows,
                                    !.errs = Append(@, res.err),
                                    !.calls = Append(@, "users"),
                                    !.pc = SeedAfter(res.err, "products")]
    /\ UNCHANGED <<products, orders, reviews, wr, rd>>

seedDatabase_Products ==
    /\ seed.pc = "products"
    /\ \E price \in [1..LenProducts -> Price(PriceMin, PriceMax)] :
         LET rows == [i \in 1..LenProducts |->
                        [id |-> NilUUID, price |-> price[i]]]
         IN \E res \in Insert(rows, products, ProductsOK(rows)) :
              /\ products' = res.table
              /\ seed' = [seed EXCEPT !.products = res.rows,
                                      !.errs = Append(@, res.err),
                                      !.calls = Append(@, "products"),
                                      !.pc = SeedAfter(res.err, "orders")]
    /\ UNCHANGED <<users, orders, reviews, wr, rd>>

seedDatabase_Orders ==
    /\ seed.pc = "orders"
    /\ \E u \in [1..LenOrders -> 1..Len(seed.users)],
          p \in [1..LenOrders -> 1..Len(seed.products)],
          quantity \in [1..LenOrders -> Number(1, SeedQuantityMax)] :
         LET rows == [i \in 1..LenOrders |->
                        [id |-> NilUUID,
                         user_id |-> seed.users[u[i]].id,
                         product_id |-> seed.products[p[i]].id,
                         quantity |-> quantity[i],
                         total_price |->
                            TotalPrice(quantity[i], seed.products[p[i]].price)]]
         IN \E res \in Insert(rows, orders, OrdersOK(rows)) :
              /\ orders' = res.table
              /\ seed' = [seed EXCEPT !.orders = res.rows,
                                      !.errs = Append(@, res.err),
                                      !.calls = Append(@, "orders"),
                                      !.pc = SeedAfter(res.err, "reviews")]
    /\ UNCHANGED <<users, products, reviews, wr, rd>>

\* The last bulk insert, seedDatabase's return and handleSeedDB's response.
seedDatabase_Reviews ==
    /\ seed.pc = "reviews"
    /\ \E u \in [1..LenReviews -> 1..Len(seed.users)],
          p \in [1..LenReviews -> 1..Len(seed.products)],
          rating \in [1..LenReviews -> Rating(1, RatingMax)] :
         LET rows == [i \in 1..LenReviews |->
                        [id |-> NilUUID,
                         product_id |-> seed.products[p[i]].id,
                         user_id |-> seed.users[u[i]].id,
                         rating |-> rating[i]]]
         IN \E res \in Insert(rows, reviews, ReviewsOK(rows)) :
              /\ reviews' = res.table
              /\ seed' = [seed EXCEPT
                            !.reviews = res.rows,
                            !.errs = Append(@, res.err),
                            !.calls = Append(@, "reviews"),
                            !.ret = SeedReturn(Append(seed.errs, res.err)),
                            !.status =
                               SeedStatus(SeedReturn(Append(seed.errs, res.err))),
                            !.pc = SeedAfter(res.err, "done")]
    /\ UNCHANGED <<users, products, orders, wr, rd>>

handleSeedDB ==
    \/ seedDatabase_Users
    \/ seedDatabase_Products
    \/ seedDatabase_Orders
    \/ seedDatabase_Reviews

(* ---------------------------------------------------------------------- *)
(* The write workload: handleDBWrite                                       *)
(* ---------------------------------------------------------------------- *)
\* Mutant: the handler reads the store again after its inserts.
WriteAfterReread(err, next) == IF next = "done" THEN "product" ELSE next

\* Mutant: the handler returns at the first store call that fails.
WriteAfterReturn(err, next) == IF err # "nil" THEN "failed" ELSE next

\* After a store call of handleDBWrite: the error is logged, nothing returns.
WriteAfter(err, next) == next

Call(name, arg, err) == [call |-> name, arg |-> arg, err |-> err]

handleDBWrite_Product(w) ==
    /\ wr[w].pc = "product"
    /\ \E res \in WithContext(wr[w].cancelled,
                             SelectRandom(products, ZeroProduct),
                             [err |-> "Canceled", row |-> ZeroProduct]) :
         /\ wr' = [wr EXCEPT
                     ![w].product = res.row,
                     ![w].log = Append(@, Call("SelectProduct", NilUUID, res.err)),
                     ![w].late = Late(wr[w].cancelled, res.err,
                                      "SelectProduct", @),
                     ![w].pc = WriteAfter(res.err, "user")]
    /\ UNCHANGED <<users, products, orders, reviews, seed, rd>>

handleDBWrite_User(w) ==
    /\ wr[w].pc = "user"
    /\ \E res \in WithContext(wr[w].cancelled,
                             SelectRandom(users, ZeroUser),
                             [err |-> "Canceled", row |-> ZeroUser]) :
         /\ wr' = [wr EXCEPT
                     ![w].user = res.row,
                     ![w].log = Append(@, Call("SelectUser", NilUUID, res.err)),
                     ![w].late = Late(wr[w].cancelled, res.err,
                                      "SelectUser", @),
                     ![w].pc = WriteAfter(res.err, "order")]
    /\ UNCHANGED <<users, products, orders, reviews, seed, rd>>

handleDBWrite_Order(w) ==
    /\ wr[w].pc = "order"
    /\ \E quantity \in Number(1, WriteQuantityMax) :
         LET order == [id |-> NilUUID,
                       user_id |-> wr[w].user.id,
                       product_id |-> wr[w].product.id,
                       quantity |-> quantity,
                       total_price |->
                          TotalPrice(quantity, wr[w].product.price)]
         IN \E res \in WithContext(wr[w].cancelled,
                                  Insert(<<order>>, orders, OrdersOK(<<order>>)),
                                  [err |-> "Canceled", rows |-> <<order>>,
                                   table |-> orders]) :
              /\ orders' = res.table
              /\ wr' = [wr EXCEPT
                          ![w].late = Late(wr[w].cancelled, res.err,
                                           "InsertOrder", @),
                          ![w].order = res.rows[1],
                          ![w].log = Append(@, Call("InsertOrder",
                                                    order.product_id, res.err)),
                          ![w].pc = WriteAfter(res.err, "review")]
    /\ UNCHANGED <<users, products, reviews, seed, rd>>

\* The Review insert and the rendering of write.html.
handleDBWrite_Review(w) ==
    /\ wr[w].pc = "review"
    /\ \E rating \in Rating(1, RatingMax) :
         LET review == [id |-> NilUUID,
                        product_id |-> wr[w].product.id,
                        user_id |-> wr[w].user.id,
                        rating |-> rating]
         IN \E res \in WithContext(wr[w].cancelled,
                                  Insert(<<review>>, reviews,
                                         ReviewsOK(<<review>>)),
                                  [err |-> "Canceled", rows |-> <<review>>,
                                   table |-> reviews]) :
              /\ reviews' = res.table
              /\ wr' = [wr EXCEPT
                          ![w].late = Late(wr[w].cancelled, res.err,
                                           "InsertReview", @),
                          ![w].review = res.rows[1],
                          ![w].log = Append(@, Call("InsertReview",
                                                    review.product_id, res.err)),
                          ![w].view =
                             [ProductName |-> wr[w].product.id,
                              UserName |-> wr[w].user.id,
                              OrderQuantity |-> wr[w].order.quantity,
                              OrderTotalPrice |-> wr[w].order.total_price,
                              ReviewRating |-> rating],
                          ![w].status = StatusOK,
                          ![w].pc = WriteAfter(res.err, "done")]
    /\ UNCHANGED <<users, products, orders, seed, rd>>

handleDBWrite(w) ==
    \/ handleDBWrite_Product(w)
    \/ handleDBWrite_User(w)
    \/ handleDBWrite_Order(w)
    \/ handleDBWrite_Review(w)

(* ---------------------------------------------------------------------- *)
(* The read workload: handleDBRead                                         *)
(* ---------------------------------------------------------------------- *)
\* Mutant: the error is answered with a 500 and the handler goes on.
ReadAfterNoReturn(err, next) == next

\* After a query of handleDBRead: an error is logged, answered with a 500
\* and the handler returns.
ReadAfter(err, next) == IF err # "nil" THEN "failed" ELSE next

ReadStatus(err, status) ==
    IF err # "nil" THEN StatusInternalServerError ELSE status

\* Mutant: the sampled product is kept in a place the concurrent
\* invocations share.
SampledProductShared(r) == rd[CHOOSE q \in Readers : q # r].product

\* var product Product: the handler's local variable, one per invocation.
SampledProduct(r) == rd[r].product

handleDBRead_Product(r) ==
    /\ rd[r].pc = "product"
    /\ \E res \in WithContext(rd[r].cancelled,
                             SelectRandom(products, ZeroProduct),
                             [err |-> "Canceled", row |-> ZeroProduct]) :
         /\ rd' = [rd EXCEPT
                     ![r].late = Late(rd[r].cancelled, res.err,
                                      "SelectProduct", @),
                     ![r].product = res.row,
                     ![r].log = Append(@, Call("SelectProduct", NilUUID, res.err)),
                     ![r].status = ReadStatus(res.err, @),
                     ![r].pc = ReadAfter(res.err, "orderCount")]
    /\ UNCHANGED <<users, products, orders, reviews, seed, wr>>

handleDBRead_OrderCount(r) ==
    /\ rd[r].pc = "orderCount"
    /\ \E res \in QueryOne(CountOrders(SampledProduct(r).id), 0) :
         /\ rd' = [rd EXCEPT
                     ![r].late = Late(rd[r].cancelled, res.err,
                                      "CountOrders", @),
                     ![r].orderCount = res.value,
                     ![r].log = Append(@, Call("CountOrders",
                                               SampledProduct(r).id, res.err)),
                     ![r].status = ReadStatus(res.err, @),
                     ![r].pc = ReadAfter(res.err, "uniqueUserCount")]
    /\ UNCHANGED <<users, products, orders, reviews, seed, wr>>

handleDBRead_UniqueUserCount(r) ==
    /\ rd[r].pc = "uniqueUserCount"
    /\ \E res \in QueryOne(CountDistinctUsers(SampledProduct(r).id), 0) :
         /\ rd' = [rd EXCEPT
                     ![r].late = Late(rd[r].cancelled, res.err,
                                      "CountDistinctUsers", @),
                     ![r].uniqueUserCount = res.value,
                     ![r].log = Append(@, Call("CountDistinctUsers",
                                               SampledProduct(r).id, res.err)),
                     ![r].status = ReadStatus(res.err, @),
                     ![r].pc = ReadAfter(res.err, "reviews")]
    /\ UNCHANGED <<users, products, orders, reviews, seed, wr>>

\* The reviews query and the rendering of read.html.
handleDBRead_Reviews(r) ==
    /\ rd[r].pc = "reviews"
    /\ \E res \in WithContext(rd[r].cancelled,
                             Query(SelectReviews(SampledProduct(r).id)),
                             [err |-> "Canceled", value |-> {}]) :
         /\ rd' = [rd EXCEPT
                     ![r].late = Late(rd[r].cancelled, res.err,
                                      "SelectReviews", @),
                     ![r].reviews = res.value,
                     ![r].log = Append(@, Call("SelectReviews",
                                               SampledProduct(r).id, res.err)),
                     ![r].view =
                        IF res.err # "nil" THEN @
                        ELSE [ProductName |-> SampledProduct(r).id,
                              OrderCount |-> rd[r].orderCount,
                              UniqueUserCount |-> rd[r].uniqueUserCount,
                              Reviews |-> res.value],
                     ![r].status = ReadStatus(res.err, StatusOK),
                     ![r].pc = ReadAfter(res.err, "done")]
    /\ UNCHANGED <<users, products, orders, reviews, seed, wr>>

handleDBRead(r) ==
    \/ handleDBRead_Product(r)
    \/ handleDBRead_OrderCount(r)
    \/ handleDBRead_UniqueUserCount(r)
    \/ handleDBRead_Reviews(r)

\* The caller of a request in flight disconnects: net/http cancels the
\* context the handler took from the request.
Cancel_handleDBWrite(w) ==
    /\ wr[w].pc # "done"
    /\ ~wr[w].cancelled
    /\ wr' = [wr EXCEPT ![w].cancelled = TRUE]
    /\ UNCHANGED <<users, products, orders, reviews, seed, rd>>

Cancel_handleDBRead(r) ==
    /\ rd[r].pc \notin {"done", "failed"}
    /\ ~rd[r].cancelled
    /\ rd' = [rd EXCEPT ![r].cancelled = TRUE]
    /\ UNCHANGED <<users, products, orders, reviews, seed, wr>>

Next ==
    \/ handleSeedDB
    \/ \E w \in Writers : handleDBWrite(w)
    \/ \E r \in Readers : handleDBRead(r)
    \/ \E w \in Writers : Cancel_handleDBWrite(w)
    \/ \E r \in Readers : Cancel_handleDBRead(r)

Spec == Init /\ [][Next]_vars

\* A seeding run with no workload request in flight.
SpecSeed == Init /\ [][handleSeedDB]_vars

\* Seeding and write-workload requests.
NextWrite ==
    \/ handleSeedDB
    \/ \E w \in Writers : handleDBWrite(w)

SpecWrite == Init /\ [][NextWrite]_vars

\* Seeding and one read-workload request.
NextRead ==
    \/ handleSeedDB
    \/ handleDBRead("r1")

SpecRead == Init /\ [][NextRead]_vars

\* Seeding and concurrent read-workload requests.
NextReaders ==
    \/ handleSeedDB
    \/ \E r \in Readers : handleDBRead(r)

SpecReaders == Init /\ [][NextReaders]_vars

\* Seeding, the write requests and one read request, with the disconnection
\* of their callers.
NextWorkload ==
    \/ handleSeedDB
    \/ \E w \in Writers : handleDBWrite(w)
    \/ \E w \in Writers : Cancel_handleDBWrite(w)
    \/ handleDBRead("r1")
    \/ Cancel_handleDBRead("r1")

SpecWorkload == Init /\ [][NextWorkload]_vars

(* ---------------------------------------------------------------------- *)
(* Properties                                                              *)
(* ---------------------------------------------------------------------- *)
Errs(log) == {i \in 1..Len(log) : log[i].err # "nil"}

Calls(log) == [i \in 1..Len(log) |-> log[i].call]

Called(log, name) == \E i \in 1..Len(log) : log[i].call = name

Failed(log, name) ==
    \E i \in 1..Len(log) : log[i].call = name /\ log[i].err # "nil"

IsPrefix(s, t) ==
    /\ Len(s) <= Len(t)
    /\ \A i \in 1..Len(s) : s[i] = t[i]

\* C1: in handleDBWrite, when the product sample or the user sample fails
\* or finds no row, neither the Order insert nor the Review insert is
\* attempted in that invocation.
C1_NoInsertAfterFailedSample ==
    \A w \in Writers :
        (Failed(wr[w].log, "SelectProduct") \/ Failed(wr[w].log, "SelectUser"))
        => /\ ~Called(wr[w].log, "InsertOrder")
           /\ ~Called(wr[w].log, "InsertReview")

\* C2: a write-workload invocation in which a store call returned an error
\* answers 500 and renders no confirmation; a confirmation is rendered only
\* when all four store calls succeeded.
C2_WriteErrorIs500 ==
    \A w \in Writers :
        /\ (wr[w].pc = "done" /\ Errs(wr[w].log) # {})
              => (wr[w].status = StatusInternalServerError
                  /\ wr[w].view = ZeroWriteView)
        /\ wr[w].status = StatusOK
              => (Len(wr[w].log) = 4 /\ Errs(wr[w].log) = {})

ReadQueries ==
    <<"SelectProduct", "CountOrders", "CountDistinctUsers", "SelectReviews">>

\* C3: in handleDBRead the first failing query ends the invocation: no
\* query is issued after a failed one, a failed query is answered with a
\* 500 and no view, and a view is rendered only after all four queries
\* succeeded.
C3_ReadStopsAtFirstError ==
    \A r \in Readers :
        /\ IsPrefix(Calls(rd[r].log), ReadQueries)
        /\ \A i \in Errs(rd[r].log) : i = Len(rd[r].log)
        /\ Errs(rd[r].log) # {}
              => /\ rd[r].pc = "failed"
                 /\ rd[r].status = StatusInternalServerError
                 /\ rd[r].view = ZeroReadView
        /\ (rd[r].status = StatusOK \/ rd[r].view # ZeroReadView)
              => /\ Calls(rd[r].log) = ReadQueries
                 /\ Errs(rd[r].log) = {}

\* A dependent query failed: the product was sampled, the order count
\* failed and the invocation ended there.
C3_Witness ==
    \E r \in Readers :
        /\ rd[r].pc = "failed"
        /\ Len(rd[r].log) = 2
        /\ rd[r].log[1].err = "nil"
        /\ rd[r].log[2].err = "Backend"

\* C4: when both samples of a write-workload invocation succeed, then once
\* the confirmation is rendered one Order row and one Review row of that
\* invocation are in the store, with the fields the confirmation shows.
C4_RenderedRowsPersisted ==
    \A w \in Writers :
        (/\ wr[w].status = StatusOK
         /\ ~Failed(wr[w].log, "SelectProduct")
         /\ ~Failed(wr[w].log, "SelectUser"))
        => /\ wr[w].order.id # NilUUID
           /\ Cardinality({o \in orders : o.id = wr[w].order.id}) = 1
           /\ \A o \in orders :
                o.id = wr[w].order.id
                => /\ o.product_id = wr[w].view.ProductName
                   /\ o.user_id = wr[w].view.UserName
                   /\ o.quantity = wr[w].view.OrderQuantity
                   /\ o.total_price = wr[w].view.OrderTotalPrice
           /\ wr[w].review.id # NilUUID
           /\ Cardinality({x \in reviews : x.id = wr[w].review.id}) = 1
           /\ \A x \in reviews :
                x.id = wr[w].review.id
                => /\ x.product_id = wr[w].view.ProductName
                   /\ x.user_id = wr[w].view.UserName
                   /\ x.rating = wr[w].view.ReviewRating

SeedSubmitted(step) == Len(seed.errs) >= step

RefsGenerated(row) ==
    /\ row.user_id # NilUUID
    /\ row.user_id \in IDs(Range(seed.users))
    /\ row.user_id \in IDs(users)
    /\ row.product_id # NilUUID
    /\ row.product_id \in IDs(Range(seed.products))
    /\ row.product_id \in IDs(products)

\* C5: in a seeding run, whatever the outcome of each bulk insert, every
\* Order and Review row submitted for insert carries the ids of a User and
\* a Product generated in the same run and present in the store, never the
\* zero id.
C5_SeedRowsReferenceGenerated ==
    /\ SeedSubmitted(3) => \A i \in 1..Len(seed.orders) :
                              RefsGenerated(seed.orders[i])
    /\ SeedSubmitted(4) => \A i \in 1..Len(seed.reviews) :
                              RefsGenerated(seed.reviews[i])

\* C6: handleSeedDB answers 500 when any of the four bulk inserts errored
\* and 201 only when all four succeeded.
C6_SeedStatusReportsErrors ==
    seed.pc = "done"
    => /\ (\E i \in 1..4 : seed.errs[i] # "nil")
            => seed.status = StatusInternalServerError
       /\ seed.status = StatusCreated
            => (\A i \in 1..4 : seed.errs[i] = "nil")

Resolves(row) ==
    /\ row.user_id \in IDs(users)
    /\ row.product_id \in IDs(products)

SeedSucceeded ==
    /\ seed.pc = "done"
    /\ \A i \in 1..Len(seed.errs) : seed.errs[i] = "nil"

\* C7: a seeding run started on empty tables, with no other writer, in
\* which all four bulk inserts succeed ends with exactly the requested
\* number of rows in each table, every Order and Review referencing a
\* stored User and a stored Product.
C7_SeedCounts ==
    SeedSucceeded
    => /\ Cardinality(users) = NumUsers
       /\ Cardinality(products) = NumProducts
       /\ Cardinality(orders) = NumOrders
       /\ Cardinality(reviews) = NumReviews
       /\ \A o \in orders : Resolves(o)
       /\ \A x \in reviews : Resolves(x)

C7_Witness ==
    /\ SeedSucceeded
    /\ orders # {}
    /\ reviews # {}

\* C8: in every reachable state, whatever the interleaving of seeding and
\* workload requests and whatever store calls fail, every Order row and
\* every Review row in the store references a User row and a Product row
\* that are in the store.
C8_ReferentialIntegrity ==
    /\ \A o \in orders : Resolves(o)
    /\ \A x \in reviews : Resolves(x)

\* The store holds a seeded Order, a workload-created Order and a
\* workload-created Review, and a write invocation whose user sample
\* failed has attempted its inserts.
C8_Witness ==
    /\ \E i \in 1..Len(seed.orders) : seed.orders[i] \in orders
    /\ \E w \in Writers : wr[w].order \in orders /\ wr[w].review \in reviews

C8_WitnessRejected ==
    \E w \in Writers :
        /\ Failed(wr[w].log, "SelectUser")
        /\ ~Failed(wr[w].log, "SelectProduct")
        /\ wr[w].log[Len(wr[w].log)] =
              Call("InsertOrder", wr[w].product.id, "Constraint")

NoBackendError(log) ==
    \A i \in 1..Len(log) : log[i].err \notin {"Backend", "Canceled"}

\* C9: a read-workload invocation with no store-call failure whose sampled
\* Product has no Orders and no Reviews completes without error and
\* renders OrderCount = 0, UniqueUserCount = 0 and an empty review list.
C9_ReadEmptyProduct ==
    \A r \in Readers :
        (/\ rd[r].pc \in {"done", "failed"}
         /\ NoBackendError(rd[r].log)
         /\ rd[r].product \in products
         /\ CountOrders(rd[r].product.id) = 0
         /\ SelectReviews(rd[r].product.id) = {})
        => /\ rd[r].pc = "done"
           /\ rd[r].status = StatusOK
           /\ rd[r].view = [ProductName |-> rd[r].product.id,
                            OrderCount |-> 0,
                            UniqueUserCount |-> 0,
                            Reviews |-> {}]

C9_Witness ==
    \E r \in Readers :
        /\ rd[r].pc = "done"
        /\ rd[r].product \in products
        /\ CountOrders(rd[r].product.id) = 0
        /\ SelectReviews(rd[r].product.id) = {}
        /\ rd[r].view.OrderCount = 0

PriceOf(product_id) ==
    {p.price : p \in {x \in products : x.id = product_id}}

\* C10: every Order row created by the seed generator or by handleDBWrite
\* that references a Product has total_price = quantity * the price of
\* that Product, in cents, with quantity in [1,10] when seeded and in
\* [1,5] when created by the write workload.
C10_TotalPrice ==
    /\ \A o \in orders :
         /\ \E p \in products :
              p.id = o.product_id /\ o.total_price = o.quantity * p.price
         /\ \/ o \in Range(seed.orders) /\ o.quantity \in 1..10
            \/ \E w \in Writers : o = wr[w].order /\ o.quantity \in 1..5
    /\ \A i \in 1..Len(seed.orders) :
         LET o == seed.orders[i]
         IN /\ o.quantity \in 1..10
            /\ \A price \in PriceOf(o.product_id) :
                 o.total_price = o.quantity * price
    /\ \A w \in Writers :
         LET o == wr[w].order
         IN Called(wr[w].log, "InsertOrder")
            => /\ o.quantity \in 1..5
               /\ \A price \in PriceOf(o.product_id) :
                    o.total_price = o.quantity * price

C10_Witness ==
    /\ \E o \in orders : o \in Range(seed.orders) /\ o.quantity = 10
    /\ \E w \in Writers : wr[w].order \in orders /\ wr[w].order.quantity = 5

SeedInserts == <<"users", "products", "orders", "reviews">>

\* C11: an error of a phase's bulk insert does not abort a seeding run:
\* the four bulk inserts are attempted in every run, Users, Products,
\* Orders, Reviews in that order, whatever the outcome of the earlier ones.
C11_SeedAttemptsAllInserts ==
    /\ IsPrefix(seed.calls, SeedInserts)
    /\ Len(seed.errs) = Len(seed.calls)
    /\ seed.pc = "done" => seed.calls = SeedInserts
    /\ seed.pc # "done" => seed.pc = SeedInserts[Len(seed.calls) + 1]

\* A run in which the second bulk insert errored and the last two were
\* attempted all the same.
C11_Witness ==
    /\ seed.pc = "done"
    /\ seed.calls = SeedInserts
    /\ seed.errs[1] = "nil"
    /\ seed.errs[2] = "Backend"

\* C12, as claimed: if the Users bulk insert errors, the run is aborted and
\* no Products, Orders or Reviews bulk insert is attempted.
C12_UsersErrorAborts ==
    (Len(seed.errs) >= 1 /\ seed.errs[1] # "nil")
    => seed.calls = <<"users">>

\* C12, amended: if the Users bulk insert errors, the error is logged, no
\* User row of the batch is stored, and the run goes on: the Products,
\* Orders and Reviews bulk inserts are still attempted in that run.
C12_UsersErrorGoesOn ==
    (Len(seed.errs) >= 1 /\ seed.errs[1] # "nil")
    => /\ \A i \in 1..Len(seed.users) : seed.users[i] \notin users
       /\ seed.pc # "users"
       /\ seed.pc = "done" => \A t \in {"products", "orders", "reviews"} :
                                  \E i \in 2..Len(seed.calls) : seed.calls[i] = t

C12_Witness ==
    /\ seed.pc = "done"
    /\ seed.errs[1] = "Backend"
    /\ seed.errs[2] = "nil"
    /\ seed.errs[3] = "Constraint"

WriteCalls == <<"SelectProduct", "SelectUser", "InsertOrder", "InsertReview">>

C14_IndependentInserts ==
    \A w \in Writers :
        LET log == wr[w].log
        IN /\ Called(log, "InsertOrder")
                => \/ Called(log, "InsertReview")
                   \/ wr[w].pc = "review"
           /\ wr[w].pc = "done" => Called(log, "InsertReview")
           /\ (Called(log, "InsertOrder") /\ ~Failed(log, "InsertOrder"))
                => /\ wr[w].order.id # NilUUID
                   /\ wr[w].order \in orders
           /\ (Called(log, "InsertReview") /\ ~Failed(log, "InsertReview"))
                => /\ wr[w].review.id # NilUUID
                   /\ wr[w].review \in reviews

\* An invocation that persisted its Order and not its Review.
C14_Witness ==
    \E w \in Writers :
        /\ wr[w].pc = "done"
        /\ ~Failed(wr[w].log, "InsertOrder")
        /\ wr[w].order \in orders
        /\ Failed(wr[w].log, "InsertReview")
        /\ wr[w].review \notin reviews

\* An invocation that persisted its Review and not its Order.
C14_WitnessReviewOnly ==
    \E w \in Writers :
        /\ wr[w].pc = "done"
        /\ Failed(wr[w].log, "InsertOrder")
        /\ wr[w].order \notin orders
        /\ ~Failed(wr[w].log, "InsertReview")
        /\ wr[w].review \in reviews

\* C15: once the inbound request of a workload invocation is cancelled,
\* every store call the invocation issues afterwards is bound to that
\* cancellation and does not run against the store: none of the four
\* queries of the read handler, none of the four calls of the write handler.
C15_NoStoreCallAfterCancel ==
    /\ \A r \in Readers : rd[r].late = {}
    /\ \A w \in Writers : wr[w].late = {}

\* C16: in every read-workload invocation the order count, the
\* distinct-user count and the review fetch are parameterised by the id of
\* the product sampled in the first step of that same invocation, whatever
\* the concurrent invocations sampled; the rendered view names that product.
C16_ReadUsesOwnSample ==
    \A r \in Readers :
        LET log == rd[r].log
        IN /\ \A i \in 1..Len(log) :
                /\ (i = 1) = (log[i].call = "SelectProduct")
                /\ i >= 2 => /\ log[1].err = "nil"
                             /\ rd[r].product.id # NilUUID
                             /\ log[i].arg = rd[r].product.id
           /\ rd[r].status = StatusOK
                => rd[r].view.ProductName = rd[r].product.id

\* Two read invocations in flight at once, both past their sample and both
\* having issued a dependent query.
C16_Witness ==
    /\ rd["r1"].pc = "uniqueUserCount"
    /\ rd["r2"].pc = "reviews"
    /\ rd["r1"].product.id # NilUUID
    /\ rd["r2"].product.id # NilUUID

UniqueIDs(table) == \A a, b \in table : a.id = b.id => a = b

\* C17: no operation updates or deletes a row: in every step each of the
\* four tables keeps all its rows with their fields and no stored row gets
\* a second version; a step of a read-workload invocation leaves the four
\* tables unchanged, a step of a write-workload invocation leaves the Users
\* and Products tables unchanged.
C17_AppendOnly ==
    [][/\ users \subseteq users'
       /\ products \subseteq products'
       /\ orders \subseteq orders'
       /\ reviews \subseteq reviews'
       /\ UniqueIDs(users') /\ UniqueIDs(products')
       /\ UniqueIDs(orders') /\ UniqueIDs(reviews')
       /\ rd' # rd => UNCHANGED <<users, products, orders, reviews>>
       /\ wr' # wr => UNCHANGED <<users, products>>]_vars

\* Seeding, a write invocation and a read invocation have all finished and
\* the Orders table holds the seeded Order and the written one.
C17_Witness ==
    /\ seed.pc = "done"
    /\ \E w \in Writers : /\ wr[w].pc = "done"
                          /\ wr[w].order \in orders
                          /\ wr[w].review \in reviews
    /\ rd["r1"].status = StatusOK
    /\ Cardinality(orders) = NumOrders + 1
    /\ Cardinality(reviews) = NumReviews + 1
    /\ users # {} /\ products # {}

\* C18, as claimed: in every view rendered by the read workload
\* UniqueUserCount is at most OrderCount, also with inserts running between
\* the read handler's queries.
C18_UniqueAtMostOrders ==
    \A r \in Readers :
        rd[r].status = StatusOK
        => rd[r].view.UniqueUserCount <= rd[r].view.OrderCount

\* C18, amended: in every view rendered by the read workload OrderCount and
\* UniqueUserCount are each at most the number of Orders the product has
\* by then, and UniqueUserCount is at most OrderCount when no Order of the
\* product was inserted after the order-count query; with such an insert
\* between the two queries UniqueUserCount can exceed OrderCount.
C18_CountsWithoutSnapshot ==
    \A r \in Readers :
        rd[r].status = StatusOK
        => LET view == rd[r].view
               now == CountOrders(rd[r].product.id)
           IN /\ view.OrderCount <= now
              /\ view.UniqueUserCount <= now
              /\ view.OrderCount = now
                   => view.UniqueUserCount <= view.OrderCount

\* A rendered view of a product with a seeded Order and an Order of a
\* concurrent write invocation, both counted.
C18_Witness ==
    /\ rd["r1"].status = StatusOK
    /\ \E w \in Writers : /\ wr[w].order \in orders
                          /\ wr[w].order.product_id = rd["r1"].product.id
    /\ rd["r1"].view.OrderCount = NumOrders + 1
    /\ rd["r1"].view.OrderCount = CountOrders(rd["r1"].product.id)
    /\ rd["r1"].view.UniqueUserCount >= 1

\* A rendered view whose UniqueUserCount exceeds its OrderCount.
C18_WitnessExceeds ==
    /\ rd["r1"].status = StatusOK
    /\ rd["r1"].view.UniqueUserCount > rd["r1"].view.OrderCount

====
